---- MODULE Spec2Model ----
(***************************************************************************)
(* A model of src/app.py: the category hierarchy of a LinkML/Biolink       *)
(* schema document, the display tree built from it, the entity-resolution  *)
(* view and the major-branch classification.                               *)
(*                                                                         *)
(* A schema document is the "classes" mapping of the YAML file: a sequence *)
(* (YAML keeps the order of its keys) of entries, each an English label    *)
(* and an optional is_a label.  A label is a sequence of words; a word is  *)
(* kept as its first character and the rest, which is all that             *)
(* convert_category_to_trapi_format reads.  Python's None is the string    *)
(* "None"; no label of the model converts to that name.                    *)
(*                                                                         *)
(* A Python dict is a sequence of [key, value] records in insertion order. *)
(* A Python set object is the sequence of its elements in the order the    *)
(* interpreter iterates them.  That order is not fixed by the language: it *)
(* follows the string hashes, which every interpreter process salts anew,  *)
(* so a set that is built (set.add, union) gets any of its orders.  A set  *)
(* object that is then left alone is iterated in the same order each time. *)
(***************************************************************************)
EXTENDS Naturals, Sequences, FiniteSets, TLC

\* ----------------------------------------------------------------- bounds
\* The most class entries of a schema document.
MaxClasses == 3
\* The most nested calls of get_tree_node_recursive the interpreter allows
\* before it raises RecursionError (sys.getrecursionlimit(), scaled down to the
\* number of names of the model: no acyclic map of the model reaches it).
RecursionLimit == 5
\* The most requests served in one behaviour.
MaxRequests == 2

\* ------------------------------------------------------------------ names
None == "None"

Word(f, r) == [first |-> f, rest |-> r]

\* The English labels of the model, in the order the document lists them.
Labels ==
    << <<Word("n", "amed"), Word("t", "hing")>>,
       <<Word("b", "iological"), Word("e", "ntity")>>,
       <<Word("o", "rganismal"), Word("e", "ntity")>>,
       <<Word("g", "ene")>>,
       <<Word("G", "ene")>> >>

\* str.upper() on the one character word[0].
Upper(c) ==
    CASE c = "n" -> "N" [] c = "t" -> "T" [] c = "b" -> "B" [] c = "e" -> "E"
      [] c = "o" -> "O" [] c = "g" -> "G" [] OTHER -> c

RECURSIVE convert_category_to_trapi_format(_)
convert_category_to_trapi_format(english_category) ==
    IF english_category = <<>> THEN ""
    ELSE LET word == Head(english_category)
         IN  (Upper(word.first) \o word.rest)
                 \o convert_category_to_trapi_format(Tail(english_category))

named_thing == "NamedThing"
biological_entity == "BiologicalEntity"
new_sub_branch == "GeneticOrMolecularBiologicalEntity"
sub_branches_to_keep ==
    {"BiologicalProcessOrActivity", "DiseaseOrPhenotypicFeature", "OrganismalEntity"}

\* Python's order on the names the model can produce (str.__lt__ compares code
\* points; "Gene" is a proper prefix of "GeneticOr...").
NameOrder ==
    << "BiologicalEntity", "BiologicalProcessOrActivity", "DiseaseOrPhenotypicFeature",
       "Gene", "GeneticOrMolecularBiologicalEntity", "NamedThing", "OrganismalEntity" >>

Rank(n) == CHOOSE i \in DOMAIN NameOrder : NameOrder[i] = n

NameLess(a, b) == Rank(a) < Rank(b)

\* ------------------------------------------------------------------ dicts
DictKeys(d) == {d[i].key : i \in DOMAIN d}

DictHas(d, k) == \E i \in DOMAIN d : d[i].key = k

\* d.get(k, default)
DictGet(d, k, default) ==
    IF DictHas(d, k) THEN d[CHOOSE i \in DOMAIN d : d[i].key = k].value ELSE default

\* d[k] = v: a key already present keeps its place.
DictSet(d, k, v) ==
    IF DictHas(d, k)
    THEN [i \in DOMAIN d |-> IF d[i].key = k THEN [key |-> k, value |-> v] ELSE d[i]]
    ELSE Append(d, [key |-> k, value |-> v])

\* del d[k]
DictDel(d, k) == SelectSeq(d, LAMBDA e : e.key # k)

\* d[k] on a defaultdict(set): a missing key is inserted with an empty set.
DefaultTouch(d, k) == IF DictHas(d, k) THEN d ELSE Append(d, [key |-> k, value |-> <<>>])

\* The elements of a set object.
Elements(s) == {s[i] : i \in DOMAIN s}

\* All the orders in which a set of these elements can come to be iterated.
RECURSIVE Orders(_)
Orders(S) ==
    IF S = {} THEN {<<>>}
    ELSE UNION {{<<e>> \o rest : rest \in Orders(S \ {e})} : e \in S}

\* A dict whose values were built as sets: every way its set objects can turn out.
RECURSIVE Orderings(_)
Orderings(items) ==
    IF items = <<>> THEN {<<>>}
    ELSE {<<[key |-> Head(items).key, value |-> o]>> \o rest :
             o \in Orders(Head(items).value), rest \in Orderings(Tail(items))}

\* ------------------------------------------------------- schema documents
Entry(label, is_a) == [name |-> label, is_a |-> is_a]

LabelSet == {Labels[i] : i \in DOMAIN Labels}

\* The label with no words: what info.get("is_a") gives for a class that
\* declares none (None, false at line 79 as the empty string is).
NoLabel == << >>

\* info.get("is_a")
IsAValues == LabelSet \cup {NoLabel}

\* Documents of at most MaxClasses entries.  A YAML mapping has no two equal
\* keys; the entries are listed in the order of Labels.
RECURSIVE DocumentsFrom(_, _)
DocumentsFrom(i, n) ==
    IF i > Len(Labels) \/ n = 0 THEN {<<>>}
    ELSE DocumentsFrom(i + 1, n)
           \cup {<<Entry(Labels[i], p)>> \o rest :
                    p \in IsAValues, rest \in DocumentsFrom(i + 1, n - 1)}

Documents == DocumentsFrom(1, MaxClasses)

\* ------------------------------------------------------------------ state
VARIABLES
    linkml_model,            \* the "classes" of the schema document the remote serves
    requests,                \* the number of requests received so far
    route,                   \* the handler the request is for, once the calls tell
    response,                \* the status code of get_linkml_data's response
    pc,                      \* where the handler is
    parent_to_child_dict,    \* load_category_tree_data's map: [kind, items]
    category_tree,           \* load_category_tree_data's tree list
    parent_to_child_map_revised, \* load_category_er_tree_data's map (a dict)
    category_tree_for_er,    \* load_category_er_tree_data's tree list
    stack,                   \* the frames of get_tree_node_recursive, innermost last
    child_to_parent_map,     \* generate_major_branches_maps's inverted map
    position,                \* the item of child_to_parent_map the loop is at
    ancestor,                \* the loop's ancestor
    child_to_major_branch_map,
    major_branches_to_descendants_map,
    outcome,                 \* "none", "returned" or the exception raised
    previous                 \* the maps the request before this one returned

vars == << linkml_model, requests, route, response, pc, parent_to_child_dict, category_tree,
           parent_to_child_map_revised, category_tree_for_er, stack,
           child_to_parent_map, position, ancestor, child_to_major_branch_map,
           major_branches_to_descendants_map, outcome, previous >>

EmptyMap(kind) == [kind |-> kind, items |-> <<>>]

NoMaps == [route |-> "none",
           category_to_major_branch |-> <<>>,
           major_branch_to_descendants |-> <<>>]

Init ==
    /\ linkml_model \in Documents
    /\ requests = 0
    /\ route = "none"
    /\ response = 0
    /\ pc = "idle"
    /\ parent_to_child_dict = EmptyMap("dict")
    /\ category_tree = <<>>
    /\ parent_to_child_map_revised = <<>>
    /\ category_tree_for_er = <<>>
    /\ stack = <<>>
    /\ child_to_parent_map = <<>>
    /\ position = 0
    /\ ancestor = None
    /\ child_to_major_branch_map = <<>>
    /\ major_branches_to_descendants_map = <<>>
    /\ outcome = "none"
    /\ previous = NoMaps

\* ------------------------------------------------ load_category_tree_data
\* Lines 75-81: group the converted class names by their converted is_a (the
\* values here are the sets' elements; Begin makes the set objects of them).
RECURSIVE BuildParentToChild(_, _)
BuildParentToChild(classes, acc) ==
    IF classes = <<>> THEN acc
    ELSE LET info == Head(classes)
             slot_name == convert_category_to_trapi_format(info.name)
         IN  IF info.is_a # NoLabel
             THEN LET parent_name == convert_category_to_trapi_format(info.is_a)
                  IN  BuildParentToChild(Tail(classes),
                          DictSet(acc, parent_name,
                                  DictGet(acc, parent_name, {}) \cup {slot_name}))
             ELSE BuildParentToChild(Tail(classes), acc)

\* The frame of a call of get_tree_node_recursive: lines 25-28.
Frame(root_node, parent_to_child_items) ==
    LET children_names == DictGet(parent_to_child_items, root_node.name, <<>>)
    IN  [root_node |-> root_node,
         has_children |-> children_names # <<>>,
         names |-> children_names,
         children |-> <<>>]

\* get_linkml_data, lines 38-44: the second URL is tried when the first does not
\* answer 200; the status codes are the remote's to choose.
get_linkml_data(first, second) == IF first # 200 THEN second ELSE first

StatusCodes == {200, 404}

\* The maps a finished generate_major_branches_maps returned (lines 184-185).
ReturnedMaps ==
    IF outcome = "returned" /\ route \in {"major_branches", "major_branches_er"}
    THEN [route |-> route,
          category_to_major_branch |-> child_to_major_branch_map,
          major_branch_to_descendants |-> major_branches_to_descendants_map]
    ELSE NoMaps

\* load_category_tree_data is called, lines 71-84 (every handler's first call).
\* On 200 the map is built and the recursion entered at the root; otherwise the
\* empty triple of line 89 is returned, its map a plain dict().  Nothing of the
\* request before is kept by the program (every map is a local of its call);
\* previous is what the client received.
Begin ==
    /\ pc = "idle"
    /\ requests' = requests + 1
    /\ route' = "none"
    /\ previous' = ReturnedMaps
    /\ \E first \in StatusCodes, second \in StatusCodes :
           response' = get_linkml_data(first, second)
    /\ IF response' = 200
       THEN \E items \in Orderings(BuildParentToChild(linkml_model, <<>>)) :
                /\ parent_to_child_dict' = [kind |-> "defaultdict", items |-> items]
                /\ stack' = <<Frame([name |-> named_thing, parent |-> None], items)>>
                /\ pc' = "tree"
       ELSE /\ parent_to_child_dict' = EmptyMap("dict")
            /\ stack' = <<>>
            /\ pc' = "loaded"
    /\ category_tree' = <<>>
    /\ parent_to_child_map_revised' = <<>>
    /\ category_tree_for_er' = <<>>
    /\ child_to_parent_map' = <<>>
    /\ position' = 0
    /\ ancestor' = None
    /\ child_to_major_branch_map' = <<>>
    /\ major_branches_to_descendants_map' = <<>>
    /\ outcome' = "none"
    /\ UNCHANGED linkml_model

\* The request of a behaviour.
load_category_tree_data == requests = 0 /\ Begin

\* A further request for the same document.  The process that serves it may be
\* another (a restart, another worker): its sets are ordered anew.
load_category_tree_data_again == requests \in 1..(MaxRequests - 1) /\ Begin

\* ------------------------------------------------ get_tree_node_recursive
\* sorted(children, key=lambda x: x["name"]): an insertion sort, stable.
RECURSIVE InsertByName(_, _)
InsertByName(sorted, node) ==
    IF sorted = <<>> THEN <<node>>
    ELSE IF NameLess(node.name, Head(sorted).name)
         THEN <<node>> \o sorted
         ELSE <<Head(sorted)>> \o InsertByName(Tail(sorted), node)

\* The children as the loop appended them: line 33 without its sorted().
Unsorted(children) == children

RECURSIVE SortedByName(_)
SortedByName(children) ==
    IF children = <<>> THEN <<>>
    ELSE InsertByName(SortedByName(SubSeq(children, 1, Len(children) - 1)),
                      children[Len(children)])

\* Lines 33-34: the node a finished frame returns.
ReturnedNode(frame) ==
    IF frame.has_children
    THEN [name |-> frame.root_node.name,
          parent |-> frame.root_node.parent,
          children |-> SortedByName(frame.children)]
    ELSE frame.root_node

\* The map the recursion in progress reads.
TreeMapItems == IF pc = "tree" THEN parent_to_child_dict.items
                ELSE parent_to_child_map_revised

Top == stack[Len(stack)]

\* Lines 29-31: the loop takes the next child name and calls itself on it.
get_tree_node_recursive_call ==
    /\ pc \in {"tree", "er_tree"}
    /\ Top.names # <<>>
    /\ Len(stack) < RecursionLimit
    /\ LET child_name == Head(Top.names)
       IN  stack' = [stack EXCEPT ![Len(stack)].names = Tail(@)]
                      \o <<Frame([name |-> child_name, parent |-> Top.root_node.name],
                                 TreeMapItems)>>
    /\ UNCHANGED << linkml_model, requests, route, response, pc, parent_to_child_dict,
                    category_tree, parent_to_child_map_revised, category_tree_for_er,
                    child_to_parent_map, position, ancestor, child_to_major_branch_map,
                    major_branches_to_descendants_map, outcome, previous >>

\* The call of line 31 with the interpreter's recursion limit reached:
\* RecursionError unwinds every frame and the handler.
get_tree_node_recursive_overflow ==
    /\ pc \in {"tree", "er_tree"}
    /\ Top.names # <<>>
    /\ Len(stack) >= RecursionLimit
    /\ stack' = <<>>
    /\ outcome' = "RecursionError"
    /\ pc' = "idle"
    /\ UNCHANGED << linkml_model, requests, route, response, parent_to_child_dict,
                    category_tree, parent_to_child_map_revised, category_tree_for_er,
                    child_to_parent_map, position, ancestor, child_to_major_branch_map,
                    major_branches_to_descendants_map, previous >>

\* Lines 32-34: a frame with no child name left returns its node, to the frame
\* below it (line 32) or, from the root, to the loader (lines 84 and 137).
get_tree_node_recursive_return ==
    /\ pc \in {"tree", "er_tree"}
    /\ Top.names = <<>>
    /\ IF Len(stack) > 1
       THEN /\ stack' = [SubSeq(stack, 1, Len(stack) - 1)
                            EXCEPT ![Len(stack) - 1].children = Append(@, ReturnedNode(Top))]
            /\ UNCHANGED << pc, category_tree, category_tree_for_er >>
       ELSE /\ stack' = <<>>
            /\ IF pc = "tree"
               THEN /\ category_tree' = <<ReturnedNode(Top)>>
                    /\ pc' = "loaded"
                    /\ UNCHANGED category_tree_for_er
               ELSE /\ category_tree_for_er' = <<ReturnedNode(Top)>>
                    /\ pc' = "er_loaded"
                    /\ UNCHANGED category_tree
    /\ UNCHANGED << linkml_model, requests, route, response, parent_to_child_dict,
                    parent_to_child_map_revised, child_to_parent_map, position,
                    ancestor, child_to_major_branch_map,
                    major_branches_to_descendants_map, outcome, previous >>

\* categories(), lines 193-196: load_category_tree_data was called for the
\* category page, which gets the tree list.
categories ==
    /\ pc = "loaded"
    /\ route' = "categories"
    /\ outcome' = "returned"
    /\ pc' = "idle"
    /\ UNCHANGED << linkml_model, requests, response, parent_to_child_dict, category_tree,
                    parent_to_child_map_revised, category_tree_for_er, stack,
                    child_to_parent_map, position, ancestor, child_to_major_branch_map,
                    major_branches_to_descendants_map, previous >>

\* --------------------------------------------- load_category_er_tree_data
\* The (child, parent) pairs of "for parent_name, children_names in map.items()
\* for child_name in children_names", in the order the loops yield them.
RECURSIVE ItemPairs(_)
ItemPairs(items) ==
    IF items = <<>> THEN <<>>
    ELSE LET children_names == Head(items).value
         IN  [i \in 1..Len(children_names) |->
                  [key |-> children_names[i], value |-> Head(items).key]]
               \o ItemPairs(Tail(items))

\* A dict built from pairs in order that keeps the first value of a key: the
\* comprehension of lines 161-162 with "first parent wins".
RECURSIVE DictFromPairsKeepingFirst(_, _)
DictFromPairsKeepingFirst(pairs, acc) ==
    IF pairs = <<>> THEN acc
    ELSE DictFromPairsKeepingFirst(Tail(pairs),
             IF DictHas(acc, Head(pairs).key) THEN acc
             ELSE DictSet(acc, Head(pairs).key, Head(pairs).value))

\* A dict built from pairs in order: a later pair overwrites the value of a key
\* already present, which keeps its place.
RECURSIVE DictFromPairs(_, _)
DictFromPairs(pairs, acc) ==
    IF pairs = <<>> THEN acc
    ELSE DictFromPairs(Tail(pairs), DictSet(acc, Head(pairs).key, Head(pairs).value))

\* The dict comprehension of lines 121-122 and 161-162.
Inverted(items) == DictFromPairs(ItemPairs(items), <<>>)

\* Lines 129-130.  Every name to move is a child of BiologicalEntity, so a key of
\* the inverted map already: the assignments overwrite in place, in any order.
RECURSIVE MoveSubBranches(_, _)
MoveSubBranches(inverted, sub_branches_to_move) ==
    IF sub_branches_to_move = {} THEN inverted
    ELSE LET sub_branch_to_move == CHOOSE x \in sub_branches_to_move : TRUE
         IN  MoveSubBranches(DictSet(inverted, sub_branch_to_move, new_sub_branch),
                             sub_branches_to_move \ {sub_branch_to_move})

\* Lines 131-133 (the elements of the sets built).
RECURSIVE Regroup(_, _)
Regroup(inverted, acc) ==
    IF inverted = <<>> THEN acc
    ELSE LET child == Head(inverted).key
             parent == Head(inverted).value
         IN  Regroup(Tail(inverted),
                     DictSet(acc, parent, DictGet(acc, parent, {}) \cup {child}))

\* Lines 127-134: the keys of the revised map and the elements of its sets.
RevisedMap(inverted, biological_entity_sub_branches) ==
    LET sub_branches_to_move == biological_entity_sub_branches \ sub_branches_to_keep
        regrouped == Regroup(MoveSubBranches(inverted, sub_branches_to_move), <<>>)
    IN  DictSet(regrouped, biological_entity,
                DictGet(regrouped, biological_entity, {}) \cup {new_sub_branch})

\* load_category_er_tree_data, lines 120-137, after its call of
\* load_category_tree_data returned.  Line 125 subscripts the map: a defaultdict
\* gets the key when it lacks it, a plain dict raises KeyError.
load_category_er_tree_data ==
    /\ pc = "loaded"
    /\ IF parent_to_child_dict.kind = "dict"
          /\ ~DictHas(parent_to_child_dict.items, biological_entity)
       THEN /\ outcome' = "KeyError"
            /\ pc' = "idle"
            /\ UNCHANGED << parent_to_child_dict, parent_to_child_map_revised, stack >>
       ELSE LET inverted == Inverted(parent_to_child_dict.items)
                touched == DefaultTouch(parent_to_child_dict.items, biological_entity)
                sub_branches == Elements(DictGet(touched, biological_entity, <<>>))
            IN  \E revised \in Orderings(RevisedMap(inverted, sub_branches)) :
                  /\ parent_to_child_dict' = [parent_to_child_dict EXCEPT !.items = touched]
                  /\ parent_to_child_map_revised' = revised
                  /\ stack' = <<Frame([name |-> named_thing, parent |-> None], revised)>>
                  /\ pc' = "er_tree"
                  /\ UNCHANGED outcome
    /\ UNCHANGED << linkml_model, requests, route, response, category_tree,
                    category_tree_for_er, child_to_parent_map, position, ancestor,
                    child_to_major_branch_map, major_branches_to_descendants_map,
                    previous >>

\* categories_for_entity_resolution(), lines 211-214: load_category_er_tree_data
\* was called for the entity-resolution page.
categories_for_entity_resolution ==
    /\ pc = "er_loaded"
    /\ route' = "categories_er"
    /\ outcome' = "returned"
    /\ pc' = "idle"
    /\ UNCHANGED << linkml_model, requests, response, parent_to_child_dict, category_tree,
                    parent_to_child_map_revised, category_tree_for_er, stack,
                    child_to_parent_map, position, ancestor, child_to_major_branch_map,
                    major_branches_to_descendants_map, previous >>

\* ------------------------------------------- generate_major_branches_maps
\* The map generate_major_branches_maps works on: its parent_to_child_map is the
\* very object the loader returned.
ClassifierItems ==
    IF route = "major_branches_er" THEN parent_to_child_map_revised
    ELSE parent_to_child_dict.items

\* Line 158 (the set is not changed afterwards).
major_branches == Elements(DictGet(ClassifierItems, named_thing, <<>>))

\* Lines 154-157 as far as they get: [raised, items].  Line 154 subscripts the
\* defaultdict at NamedThing and BiologicalEntity and stores the union, a new
\* set object, here union; line 156 removes BiologicalEntity from it, KeyError
\* when it is not there; line 157 deletes the key.
MoveUpOntoNamedThing(items, union) ==
    LET touched == DefaultTouch(DefaultTouch(items, named_thing), biological_entity)
        stored == DictSet(touched, named_thing, union)
    IN  IF biological_entity \notin Elements(union)
        THEN [raised |-> TRUE, items |-> stored]
        ELSE [raised |-> FALSE,
              items |-> DictDel(DictSet(stored, named_thing,
                                        SelectSeq(union, LAMBDA n : n # biological_entity)),
                                biological_entity)]

\* The elements of the union of line 154.
UnionOntoNamedThing(items) ==
    Elements(DictGet(items, named_thing, <<>>))
        \cup Elements(DictGet(items, biological_entity, <<>>))

\* generate_major_branches_maps(for_entity_resolution=False), lines 146-162,
\* after load_category_tree_data returned: line 147 takes category_tree[0]
\* (IndexError on the empty list), line 158 subscripts the map at NamedThing.
generate_major_branches_maps ==
    /\ pc = "loaded"
    /\ route' = "major_branches"
    /\ IF category_tree = <<>>
       THEN /\ outcome' = "IndexError"
            /\ pc' = "idle"
            /\ UNCHANGED << parent_to_child_dict, child_to_parent_map, position >>
       ELSE LET touched == DefaultTouch(parent_to_child_dict.items, named_thing)
            IN  /\ parent_to_child_dict' = [parent_to_child_dict EXCEPT !.items = touched]
                /\ child_to_parent_map' = Inverted(touched)
                /\ position' = 1
                /\ pc' = "classify"
                /\ UNCHANGED outcome
    /\ UNCHANGED << linkml_model, requests, response, category_tree,
                    parent_to_child_map_revised, category_tree_for_er, stack, ancestor,
                    child_to_major_branch_map, major_branches_to_descendants_map,
                    previous >>

\* generate_major_branches_maps(for_entity_resolution=True), lines 144-162, after
\* load_category_er_tree_data returned.
generate_major_branches_maps_for_entity_resolution ==
    /\ pc = "er_loaded"
    /\ route' = "major_branches_er"
    /\ \E union \in Orders(UnionOntoNamedThing(parent_to_child_map_revised)) :
         LET moved == MoveUpOntoNamedThing(parent_to_child_map_revised, union)
         IN  /\ parent_to_child_map_revised' = moved.items
             /\ IF moved.raised
                THEN /\ outcome' = "KeyError"
                     /\ pc' = "idle"
                     /\ UNCHANGED << child_to_parent_map, position >>
                ELSE /\ child_to_parent_map' = Inverted(moved.items)
                     /\ position' = 1
                     /\ pc' = "classify"
                     /\ UNCHANGED outcome
    /\ UNCHANGED << linkml_model, requests, response, parent_to_child_dict, category_tree,
                    category_tree_for_er, stack, ancestor, child_to_major_branch_map,
                    major_branches_to_descendants_map, previous >>

\* Lines 164-170, and 173 for a major branch: the loop takes the next item.
classify_next ==
    /\ pc = "classify"
    /\ position <= Len(child_to_parent_map)
    /\ LET child_name == child_to_parent_map[position].key
           parent_name == child_to_parent_map[position].value
       IN  IF child_name \in major_branches
           THEN /\ ancestor' = child_name
                /\ child_to_major_branch_map' =
                       DictSet(child_to_major_branch_map, child_name, child_name)
                /\ position' = position + 1
                /\ UNCHANGED pc
           ELSE /\ ancestor' = parent_name
                /\ pc' = "walk"
                /\ UNCHANGED << child_to_major_branch_map, position >>
    /\ UNCHANGED << linkml_model, requests, route, response, parent_to_child_dict,
                    category_tree, parent_to_child_map_revised, category_tree_for_er,
                    stack, child_to_parent_map, major_branches_to_descendants_map,
                    outcome, previous >>

\* Line 171: "while ancestor and ancestor not in major_branches".
Walking == ancestor # None /\ ancestor \notin major_branches

\* Line 172: one step up.
walk_step ==
    /\ pc = "walk"
    /\ Walking
    /\ ancestor' = DictGet(child_to_parent_map, ancestor, None)
    /\ UNCHANGED << linkml_model, requests, route, response, pc, parent_to_child_dict,
                    category_tree, parent_to_child_map_revised, category_tree_for_er,
                    stack, child_to_parent_map, position, child_to_major_branch_map,
                    major_branches_to_descendants_map, outcome, previous >>

\* Line 173, the loop of line 171 left.
walk_end ==
    /\ pc = "walk"
    /\ ~Walking
    /\ child_to_major_branch_map' =
           DictSet(child_to_major_branch_map, child_to_parent_map[position].key, ancestor)
    /\ position' = position + 1
    /\ pc' = "classify"
    /\ UNCHANGED << linkml_model, requests, route, response, parent_to_child_dict,
                    category_tree, parent_to_child_map_revised, category_tree_for_er,
                    stack, child_to_parent_map, ancestor,
                    major_branches_to_descendants_map, outcome, previous >>

\* Lines 180-182 with a major branch left out of its own list (it still gets a
\* list, as a defaultdict(list) subscripted at it would give).
RECURSIVE GroupByAncestorWithoutSelf(_, _)
GroupByAncestorWithoutSelf(child_to_major_branch, acc) ==
    IF child_to_major_branch = <<>> THEN acc
    ELSE LET child == Head(child_to_major_branch).key
             depth_one_ancestor == Head(child_to_major_branch).value
             list == DictGet(acc, depth_one_ancestor, <<>>)
         IN  GroupByAncestorWithoutSelf(Tail(child_to_major_branch),
                 DictSet(acc, depth_one_ancestor,
                         IF child = depth_one_ancestor THEN list ELSE Append(list, child)))

\* Lines 180-182: each child is appended to its ancestor's list.
RECURSIVE GroupByAncestor(_, _)
GroupByAncestor(child_to_major_branch, acc) ==
    IF child_to_major_branch = <<>> THEN acc
    ELSE LET child == Head(child_to_major_branch).key
             depth_one_ancestor == Head(child_to_major_branch).value
         IN  GroupByAncestor(Tail(child_to_major_branch),
                 DictSet(acc, depth_one_ancestor,
                         Append(DictGet(acc, depth_one_ancestor, <<>>), child)))

\* Lines 176-178: the items with a null ancestor are dropped.
WithoutNulls(child_to_major_branch) ==
    SelectSeq(child_to_major_branch, LAMBDA item : item.value # None)

\* Lines 176-185, the loop of line 164 done.
generate_major_branches_maps_return ==
    /\ pc = "classify"
    /\ position > Len(child_to_parent_map)
    /\ child_to_major_branch_map' = WithoutNulls(child_to_major_branch_map)
    /\ major_branches_to_descendants_map' =
           GroupByAncestor(child_to_major_branch_map', <<>>)
    /\ outcome' = "returned"
    /\ pc' = "idle"
    /\ UNCHANGED << linkml_model, requests, route, response, parent_to_child_dict,
                    category_tree, parent_to_child_map_revised, category_tree_for_er,
                    stack, child_to_parent_map, position, ancestor, previous >>

\* ---------------------------------------------------------- specification
Next ==
    \/ load_category_tree_data
    \/ get_tree_node_recursive_call
    \/ get_tree_node_recursive_overflow
    \/ get_tree_node_recursive_return
    \/ categories
    \/ load_category_er_tree_data
    \/ categories_for_entity_resolution
    \/ generate_major_branches_maps
    \/ generate_major_branches_maps_for_entity_resolution
    \/ classify_next
    \/ walk_step
    \/ walk_end
    \/ generate_major_branches_maps_return

\* One request.
Spec == Init /\ [][Next]_vars

\* The interpreter runs the handler on: no step that can be taken is put off
\* for ever.
FairSpec == Spec /\ WF_vars(Next)

NextRepeated == Next \/ load_category_tree_data_again

\* The same document requested up to MaxRequests times.
SpecRepeated == Init /\ [][NextRepeated]_vars

\* ================================================================ claims
\* The names of a tree's nodes, each as often as the tree holds it.
RECURSIVE NodeNames(_)
NodeNames(node) ==
    IF "children" \in DOMAIN node
    THEN LET RECURSIVE Of(_)
             Of(children) == IF children = <<>> THEN <<>>
                             ELSE NodeNames(Head(children)) \o Of(Tail(children))
         IN  <<node.name>> \o Of(node.children)
    ELSE <<node.name>>

\* The names transitively reachable from those of S in a map.
RECURSIVE ReachableFrom(_, _)
ReachableFrom(items, S) ==
    LET next == S \cup UNION {Elements(DictGet(items, n, <<>>)) : n \in S}
    IN  IF next = S THEN S ELSE ReachableFrom(items, next)

NoNameTwice(names) == \A i, j \in DOMAIN names : names[i] = names[j] => i = j

\* The direct children of a key, none for a name that is no key.
Children(items, k) == Elements(DictGet(items, k, <<>>))

\* The keys a name is listed under.
ParentsOf(items, n) == {k \in DictKeys(items) : n \in Children(items, k)}

\* The names listed as a child somewhere.
ChildNames(items) == UNION {Children(items, k) : k \in DictKeys(items)}

\* One node for each name reachable from the root, and no other.
OneNodePerReachableName(tree, items) ==
    /\ NoNameTwice(NodeNames(tree))
    /\ Elements(NodeNames(tree)) = ReachableFrom(items, {tree.name})

\* C1: a tree that get_tree_node_recursive returned holds exactly one node for
\* each name reachable from its root in the map it was built from, also when a
\* name is listed under more than one parent.
C1_OneNodePerName ==
    /\ category_tree # <<>> =>
           OneNodePerReachableName(category_tree[1], parent_to_child_dict.items)
    /\ pc = "er_loaded" =>
           OneNodePerReachableName(category_tree_for_er[1], parent_to_child_map_revised)

\* The names of the calls in progress, outermost first.
RecursionPath == [i \in DOMAIN stack |-> stack[i].root_node.name]

\* C2: tree building never has a name twice on its recursion path (it stops at
\* the first repeat) and never recurses up to the interpreter's limit.
C2_CycleStopsAtFirstRepeat ==
    /\ NoNameTwice(RecursionPath)
    /\ outcome # "RecursionError"

\* generate_major_branches_maps has returned its two maps.
MapsReturned ==
    /\ pc = "idle"
    /\ outcome = "returned"
    /\ route \in {"major_branches", "major_branches_er"}

\* The names whose category_to_major_branch entry is b.
ClassifiedUnder(b) ==
    {n \in DictKeys(child_to_major_branch_map) :
        DictGet(child_to_major_branch_map, n, None) = b}

Listed(b) == DictGet(major_branches_to_descendants_map, b, <<>>)

C4_FailedRetrievalReturnsEmpty ==
    (pc = "idle" /\ requests > 0 /\ response # 200) =>
        /\ outcome = "returned"
        /\ category_tree = <<>>
        /\ category_tree_for_er = <<>>
        /\ child_to_major_branch_map = <<>>
        /\ major_branches_to_descendants_map = <<>>

\* No name of the map is its own descendant and none has two parents.
Forest(items) ==
    /\ \A n \in ChildNames(items) : Cardinality(ParentsOf(items, n)) = 1
    /\ \A k \in DictKeys(items) : k \notin ReachableFrom(items, Children(items, k))

\* C5: once the entity-resolution path has run lines 154-157 (to their end or
\* to an exception), with C the children of BiologicalEntity and Q its parent
\* in the loader's map: the kept members of C are children of Q, the others
\* children of the placeholder, the placeholder is a child of Q,
\* BiologicalEntity is no key and no child, and each member of C has one
\* parent; whatever Q is.  Stated for the maps that are forests.
C5_PartitionLaw ==
    (route = "major_branches_er" /\ Forest(parent_to_child_dict.items)) =>
        LET C == Children(parent_to_child_dict.items, biological_entity)
            revised == parent_to_child_map_revised
        IN  \A Q \in ParentsOf(parent_to_child_dict.items, biological_entity) :
                /\ C \cap sub_branches_to_keep \subseteq Children(revised, Q)
                /\ C \ sub_branches_to_keep \subseteq Children(revised, new_sub_branch)
                /\ new_sub_branch \in Children(revised, Q)
                /\ biological_entity \notin DictKeys(revised)
                /\ biological_entity \notin ChildNames(revised)
                /\ \A c \in C : Cardinality(ParentsOf(revised, c)) = 1

\* The parent of a name in the inverted map, the last parent winning: the last
\* key of the map that lists it, None when none does.
LastParent(items, n) ==
    LET listing == {i \in DOMAIN items : n \in Elements(items[i].value)}
    IN  IF listing = {} THEN None
        ELSE items[CHOOSE i \in listing : \A j \in listing : j <= i].key

\* The chain n, parent(n), parent(parent(n)), ... as far as it has parents, and
\* no longer than steps.
RECURSIVE ParentChain(_, _, _)
ParentChain(items, n, steps) ==
    IF n = None \/ steps = 0 THEN <<>>
    ELSE <<n>> \o ParentChain(items, LastParent(items, n), steps - 1)

\* C6: for every name k listed as a child in the classifier's map, k is a key
\* of category_to_major_branch iff its parent chain (last parent wins) holds a
\* major branch, and its entry is then the first major branch of the chain;
\* and no other name is a key.
C6_NearestMajorBranch ==
    MapsReturned =>
        /\ DictKeys(child_to_major_branch_map) \subseteq ChildNames(ClassifierItems)
        /\ \A k \in ChildNames(ClassifierItems) :
               LET chain == ParentChain(ClassifierItems, k, Len(NameOrder) + 1)
                   hits == {i \in DOMAIN chain : chain[i] \in major_branches}
               IN  /\ DictHas(child_to_major_branch_map, k) <=> hits # {}
                   /\ hits # {} =>
                          DictGet(child_to_major_branch_map, k, None)
                              = chain[CHOOSE i \in hits : \A j \in hits : i <= j]

\* C6's case: a name listed under two parents that is classified under a major
\* branch other than itself, which its other parent does not lead to.
C6_Witness ==
    /\ MapsReturned
    /\ \E k \in ChildNames(ClassifierItems) :
           /\ Cardinality(ParentsOf(ClassifierItems, k)) = 2
           /\ DictHas(child_to_major_branch_map, k)
           /\ DictGet(child_to_major_branch_map, k, None) # k
           /\ \E p \in ParentsOf(ClassifierItems, k) :
                  /\ p # LastParent(ClassifierItems, k)
                  /\ p \notin major_branches
                  /\ LastParent(ClassifierItems, p) = None

\* The same keys, and the same children under each.
SameMap(items, other) ==
    /\ DictKeys(items) = DictKeys(other)
    /\ \A k \in DictKeys(items) : Children(items, k) = Children(other, k)

\* C7: the map load_category_tree_data returned is not changed by what the
\* request does after it.
C7_CanonicalMapUnchanged ==
    [][(pc \in {"loaded", "er_tree", "er_loaded", "classify", "walk"})
          => SameMap(parent_to_child_dict.items, (parent_to_child_dict').items)]_vars

\* A dict as the mapping it is (two dicts are equal whatever their order).
Mapping(d) == {<<d[i].key, d[i].value>> : i \in DOMAIN d}

\* C8: two requests for the major-branch maps of the same document return the
\* same category_to_major_branch and the same lists, name for name in order.
C8_SameOutputEachRun ==
    (MapsReturned /\ previous.route = route) =>
        /\ Mapping(child_to_major_branch_map) = Mapping(previous.category_to_major_branch)
        /\ Mapping(major_branches_to_descendants_map)
               = Mapping(previous.major_branch_to_descendants)

\* The children of every node strictly ascending by name, each with its
\* holder's name as parent.
RECURSIVE WellFormed(_)
WellFormed(node) ==
    "children" \in DOMAIN node =>
        /\ \A i \in DOMAIN node.children :
               /\ node.children[i].parent = node.name
               /\ WellFormed(node.children[i])
        /\ \A i \in 1..(Len(node.children) - 1) :
               NameLess(node.children[i].name, node.children[i + 1].name)

\* The node of a root that is no key of the map (or a key with no child).
Childless(tree, items) ==
    Children(items, named_thing) = {} => tree = [name |-> named_thing, parent |-> None]

\* C9: in every tree returned the children of every node are strictly ascending
\* by name and name their holder as parent; a root that is no key of the map
\* gives a single node without children, and no error.
C9_SortedChildren ==
    /\ category_tree # <<>> =>
           /\ WellFormed(category_tree[1])
           /\ Childless(category_tree[1], parent_to_child_dict.items)
    /\ pc = "er_loaded" =>
           /\ WellFormed(category_tree_for_er[1])
           /\ Childless(category_tree_for_er[1], parent_to_child_map_revised)
    /\ (response = 200 /\ Children(parent_to_child_dict.items, named_thing) = {}) =>
           /\ outcome # "RecursionError"
           /\ pc = "tree" => (Len(stack) = 1 /\ Top.names = <<>>)

\* C9's case: a tree whose root iterated two children in descending order, and
\* a tree of a root that is no key.
C9_Witness ==
    /\ category_tree # <<>>
    /\ LET children_names == DictGet(parent_to_child_dict.items, named_thing, <<>>)
       IN  /\ Len(children_names) >= 2
           /\ NameLess(children_names[2], children_names[1])
           /\ \E i \in DOMAIN category_tree[1].children :
                  "children" \in DOMAIN category_tree[1].children[i]

\* No name is its own parent in the inverted map.
NoSelfParent ==
    \A i \in DOMAIN child_to_parent_map :
        child_to_parent_map[i].key # child_to_parent_map[i].value

\* C10: once tree building has returned, generate_major_branches_maps comes to
\* its end, also when names that the root does not reach form a cycle.  Stated
\* for the maps in which no name is its own parent.
C10_ClassifierTerminates ==
    (pc \in {"classify", "walk"} /\ NoSelfParent) ~> (pc = "idle")
====
